---- MODULE Spec2Model ----
(***************************************************************************)
(* Model of llama_index/indices/service_context.py: the ServiceContext     *)
(* container, its two constructors from_defaults and from_service_context, *)
(* and set_global_service_context.                                         *)
(*                                                                         *)
(* Python objects live in `heap`, a sequence indexed by object identity;   *)
(* a reference is an index into it.  The attributes the source reads or    *)
(* writes (callback_manager of a predictor / embedding model) and the      *)
(* constructor arguments of the objects it builds are fields of the heap   *)
(* entry.  ServiceContext instances live in `contexts`, in construction    *)
(* order; a reference to one is its index.                                 *)
(***************************************************************************)
EXTENDS Integers, Sequences, FiniteSets

VARIABLES heap, contexts, global_service_context, last, last_set, cleared,
          calls, overrides

vars == <<heap, contexts, global_service_context, last, last_set, cleared,
          calls, overrides>>

(* ---- bounds ---------------------------------------------------------- *)
\* constructor calls (successful or raising) in one run
MaxCalls == 2
\* explicit (non-None) arguments supplied over one run
MaxOverrides == 2
\* chunk_size_limit arguments range over 0..MaxChunk
MaxChunk == 1

(* ---- Python values --------------------------------------------------- *)
\* Python's None (every Optional[...] parameter defaults to it)
None == -1

\* bool(x) for the values that occur: None and 0 are falsy, every object
\* (none of the collaborator classes defines __bool__ or __len__) and every
\* non-zero int is truthy
Truthy(x) == x # None /\ x # 0

\* x or y, for an already evaluated y
Or(x, y) == IF Truthy(x) THEN x ELSE y

(* ---- heap objects ---------------------------------------------------- *)
Obj(kind, cb, llm, pred, chunk) ==
    [kind |-> kind, callback_manager |-> cb, llm |-> llm,
     llm_predictor |-> pred, chunk_size_limit |-> chunk]

\* CallbackManager([])
CallbackManager == Obj("CallbackManager", None, None, None, None)
\* LLMPredictor(llm=llm); LLMPredictor() is LLMPredictor(None)
LLMPredictor(llm) == Obj("LLMPredictor", None, llm, None, None)
\* OpenAIEmbedding()
OpenAIEmbedding == Obj("OpenAIEmbedding", None, None, None, None)
\* LlamaLogger()
LlamaLogger == Obj("LlamaLogger", None, None, None, None)
\* PromptHelper.from_llm_predictor(llm_predictor, chunk_size_limit=...)
PromptHelper_from_llm_predictor(pred, chunk) ==
    Obj("PromptHelper", None, None, pred, chunk)
\* SimpleNodeParser(text_splitter=TokenTextSplitter(chunk_size=..), callback_manager=..)
SimpleNodeParser(chunk, cb) == Obj("SimpleNodeParser", cb, None, None, chunk)

\* constructing an object: a new identity, the next index of the heap
New(h, o) == [heap |-> Append(h, o), ref |-> Len(h) + 1]
Keep(h, r) == [heap |-> h, ref |-> r]

\* obj.callback_manager = cb, dropped (a mutant of SetCallbackManager)
SetCallbackManagerDropped(h, r, cb) == h

\* obj.callback_manager = cb, done only for an object that has no dispatcher
\* yet (a mutant of SetCallbackManager)
SetCallbackManagerIfUnset(h, r, cb) ==
    IF h[r].callback_manager = None
    THEN [h EXCEPT ![r].callback_manager = cb]
    ELSE h

\* obj.callback_manager = cb
SetCallbackManager(h, r, cb) == [h EXCEPT ![r].callback_manager = cb]

(* ---- the objects the caller owns before any call --------------------- *)
UserHeap ==
    << CallbackManager,
       Obj("BaseLanguageModel", None, None, None, None),
       LLMPredictor(None),
       OpenAIEmbedding,
       Obj("PromptHelper", None, None, None, None),
       Obj("SimpleNodeParser", None, None, None, None),
       LlamaLogger >>

User == [callback_manager |-> 1, llm |-> 2, llm_predictor |-> 3,
         embed_model |-> 4, prompt_helper |-> 5, node_parser |-> 6,
         llama_logger |-> 7]

Collaborators == {"llm_predictor", "prompt_helper", "embed_model",
                  "node_parser", "llama_logger", "callback_manager"}

ObjectArgs == Collaborators \cup {"llm"}

\* the keyword arguments of one constructor call: each collaborator argument
\* is None or the caller's own object of that class; objects are shared
\* between ServiceContexts by passing the same one twice or by inheriting it
\* from a base
ArgSpace ==
    [llm_predictor : {None, User.llm_predictor},
     llm : {None, User.llm},
     prompt_helper : {None, User.prompt_helper},
     embed_model : {None, User.embed_model},
     node_parser : {None, User.node_parser},
     llama_logger : {None, User.llama_logger},
     callback_manager : {None, User.callback_manager},
     chunk_size_limit : {None} \cup (0..MaxChunk)]

NoArgs == [llm_predictor |-> None, llm |-> None, prompt_helper |-> None,
           embed_model |-> None, node_parser |-> None, llama_logger |-> None,
           callback_manager |-> None, chunk_size_limit |-> None]

NumOverrides(a) ==
    Cardinality({f \in ObjectArgs \cup {"chunk_size_limit"} : a[f] # None})

\* every call, paired with the number of explicit arguments it supplies
Calls == {<<NumOverrides(a), a>> : a \in ArgSpace}

(* ---- ServiceContext -------------------------------------------------- *)
\* cls(llm_predictor=..., embed_model=..., ..., chunk_size_limit=...)
ServiceContext(pred, embed, helper, parser, logger, cb, chunk) ==
    [llm_predictor |-> pred, prompt_helper |-> helper, embed_model |-> embed,
     node_parser |-> parser, llama_logger |-> logger,
     callback_manager |-> cb, chunk_size_limit |-> chunk]

NoContext == ServiceContext(None, None, None, None, None, None, None)

\* a constructor that returned
Return(h, ctx) == [raised |-> FALSE, heap |-> h, ctx |-> ctx]

\* the ValueError raised after the predictor's dispatcher was already
\* overwritten (the mutant of Raise)
RaiseLate(h, a, cb) ==
    [raised |-> TRUE, heap |-> SetCallbackManager(h, a.llm_predictor, cb),
     ctx |-> NoContext]

\* raise ValueError("Cannot specify both llm and llm_predictor"): the heap is
\* as the statements before the raise left it
Raise(h, a, cb) == [raised |-> TRUE, heap |-> h, ctx |-> NoContext]

\* llama_logger = llama_logger, with the default forgotten (the mutant of
\* ResolveLogger)
ResolveLoggerNoDefault(h, arg, fallback) == Keep(h, arg)

\* llama_logger = llama_logger or <fallback>; fallback None stands for the
\* constructor call LlamaLogger(), evaluated only when arg is falsy
ResolveLogger(h, arg, fallback) ==
    IF Truthy(arg) THEN Keep(h, arg)
    ELSE IF fallback = None THEN New(h, LlamaLogger)
    ELSE Keep(h, fallback)

get_default_node_parser(h, chunk_size_limit, callback_manager) ==
    LET r == IF Truthy(callback_manager) THEN Keep(h, callback_manager)
             ELSE New(h, CallbackManager)
    IN  New(r.heap, SimpleNodeParser(chunk_size_limit, r.ref))

from_service_context(h, sc, a) ==
    LET cb == Or(a.callback_manager, sc.callback_manager)
    IN  IF a.llm # None /\ a.llm_predictor # None THEN Raise(h, a, cb)
        ELSE
        LET r1 == IF a.llm # None THEN New(h, LLMPredictor(a.llm))
                  ELSE Keep(h, a.llm_predictor)
            pred == Or(r1.ref, sc.llm_predictor)
            h2 == SetCallbackManager(r1.heap, pred, cb)
            embed == Or(a.embed_model, sc.embed_model)
            h3 == SetCallbackManager(h2, embed, cb)
            r4 == IF Truthy(a.chunk_size_limit)
                  THEN New(h3, PromptHelper_from_llm_predictor(pred, a.chunk_size_limit))
                  ELSE Keep(h3, Or(a.prompt_helper, sc.prompt_helper))
            r5 == IF Truthy(a.chunk_size_limit)
                  THEN get_default_node_parser(r4.heap, a.chunk_size_limit, cb)
                  ELSE Keep(r4.heap, Or(a.node_parser, sc.node_parser))
            r6 == ResolveLogger(r5.heap, a.llama_logger, sc.llama_logger)
        IN  Return(r6.heap,
                   ServiceContext(pred, embed, r4.ref, r5.ref, r6.ref, cb,
                                  a.chunk_size_limit))

\* from_defaults with llama_index.global_service_context = g (None or a
\* reference to one of the ServiceContexts ctxs)
from_defaults(h, ctxs, g, a) ==
    IF g # None
    THEN from_service_context(h, ctxs[g], [a EXCEPT !.llm = None])
    ELSE
    LET r0 == IF Truthy(a.callback_manager) THEN Keep(h, a.callback_manager)
              ELSE New(h, CallbackManager)
        cb == r0.ref
    IN  IF a.llm # None /\ a.llm_predictor # None THEN Raise(r0.heap, a, cb)
        ELSE
        LET r1 == IF a.llm # None THEN New(r0.heap, LLMPredictor(a.llm))
                  ELSE Keep(r0.heap, a.llm_predictor)
            r2 == IF Truthy(r1.ref) THEN r1 ELSE New(r1.heap, LLMPredictor(None))
            h2 == SetCallbackManager(r2.heap, r2.ref, cb)
            r3 == IF Truthy(a.embed_model) THEN Keep(h2, a.embed_model)
                  ELSE New(h2, OpenAIEmbedding)
            h3 == SetCallbackManager(r3.heap, r3.ref, cb)
            r4 == IF Truthy(a.prompt_helper) THEN Keep(h3, a.prompt_helper)
                  ELSE New(h3, PromptHelper_from_llm_predictor(r2.ref, a.chunk_size_limit))
            r5 == IF Truthy(a.node_parser) THEN Keep(r4.heap, a.node_parser)
                  ELSE get_default_node_parser(r4.heap, a.chunk_size_limit, cb)
            r6 == ResolveLogger(r5.heap, a.llama_logger, None)
        IN  Return(r6.heap,
                   ServiceContext(r2.ref, r3.ref, r4.ref, r5.ref, r6.ref, cb,
                                  a.chunk_size_limit))

\* the assignment with an absent value ignored (the mutant of set_global_service_context)
set_global_if_present(old, sc) == IF sc = None THEN old ELSE sc

\* llama_index.global_service_context = service_context
set_global_service_context(old, sc) == sc

(* ---- the state machine ----------------------------------------------- *)
Call(op, a, base, res) ==
    [op |-> op, args |-> a, base |-> base,
     global_before |-> global_service_context, set_before |-> last_set,
     cleared_before |-> cleared, heap_before |-> Len(heap),
     raised |-> res.raised,
     ret |-> IF res.raised THEN None ELSE Len(contexts) + 1]

Init ==
    /\ heap = UserHeap
    /\ contexts = << >>
    /\ global_service_context = None
    /\ last = [op |-> "init", args |-> NoArgs, base |-> None,
               global_before |-> None, set_before |-> None,
               cleared_before |-> None, heap_before |-> Len(UserHeap),
               raised |-> FALSE, ret |-> None]
    /\ last_set = None
    /\ cleared = None
    /\ calls = 0
    /\ overrides = 0

Finish(op, a, base, res) ==
    /\ heap' = res.heap
    /\ contexts' = IF res.raised THEN contexts ELSE Append(contexts, res.ctx)
    /\ last' = Call(op, a, base, res)
    /\ calls' = calls + 1
    /\ overrides' = overrides + NumOverrides(a)
    /\ UNCHANGED <<global_service_context, last_set, cleared>>

CallFromDefaults ==
    /\ calls < MaxCalls
    /\ \E c \in Calls :
        /\ overrides + c[1] <= MaxOverrides
        /\ Finish("from_defaults", c[2], None,
                  from_defaults(heap, contexts, global_service_context, c[2]))

CallFromServiceContext ==
    /\ calls < MaxCalls
    /\ \E b \in 1..Len(contexts) : \E c \in Calls :
        /\ overrides + c[1] <= MaxOverrides
        /\ Finish("from_service_context", c[2], b,
                  from_service_context(heap, contexts[b], c[2]))

\* (explored only while a constructor call can still observe the global)
CallSetGlobal ==
    /\ calls < MaxCalls
    /\ \E sc \in {None} \cup (1..Len(contexts)) :
        /\ global_service_context' = set_global_service_context(global_service_context, sc)
        /\ last_set' = sc
        /\ cleared' = IF sc # None THEN None
                      ELSE IF last_set # None THEN last_set ELSE cleared
        /\ UNCHANGED <<heap, contexts, last, calls, overrides>>

Next == CallFromDefaults \/ CallFromServiceContext \/ CallSetGlobal

Spec == Init /\ [][Next]_vars

(* ---- reading the last constructor call ------------------------------- *)
Constructors == {"from_defaults", "from_service_context"}
Returned == last.op \in Constructors /\ ~last.raised
Ret == contexts[last.ret]
\* an object built during the last call
Fresh(r) == r > last.heap_before
\* the ServiceContext the last call derived from: its base, or the global
\* default from_defaults found installed (None: no derive path)
DerivedFrom ==
    IF last.op = "from_service_context" THEN last.base ELSE last.global_before
Fields(c) == {c[f] : f \in Collaborators}

(* ---- C1 -------------------------------------------------------------- *)
\* C1: every constructor call given both llm and llm_predictor raises the
\* conflicting-arguments error and returns no ServiceContext, in
\* from_service_context and in from_defaults with or without a global default.
C1_ConflictAlwaysRaises ==
    (last.op \in Constructors /\ last.args.llm # None
        /\ last.args.llm_predictor # None)
    => (last.raised /\ last.ret = None)

(* ---- C2 -------------------------------------------------------------- *)
\* C2: every constructor call given llm and no llm_predictor returns a
\* ServiceContext whose predictor was newly built from that llm: not a default
\* predictor, not the predictor of the base or global ServiceContext.
C2_HandleBuildsPredictor ==
    (Returned /\ last.args.llm # None /\ last.args.llm_predictor = None)
    => /\ Fresh(Ret.llm_predictor)
       /\ heap[Ret.llm_predictor] =
            [LLMPredictor(last.args.llm) EXCEPT !.callback_manager = Ret.callback_manager]
       /\ DerivedFrom # None
            => Ret.llm_predictor # contexts[DerivedFrom].llm_predictor

(* ---- C3 -------------------------------------------------------------- *)
\* C3: right after a successful constructor call the callback_manager of the
\* returned predictor and of the returned embedding model are the returned
\* ServiceContext's callback_manager, which is the explicit argument if given,
\* else the base's (derive path), else a fresh empty CallbackManager.
C3_DispatcherShared ==
    Returned =>
        /\ heap[Ret.llm_predictor].callback_manager = Ret.callback_manager
        /\ heap[Ret.embed_model].callback_manager = Ret.callback_manager
        /\ IF last.args.callback_manager # None
           THEN Ret.callback_manager = last.args.callback_manager
           ELSE IF DerivedFrom # None
           THEN Ret.callback_manager = contexts[DerivedFrom].callback_manager
           ELSE /\ Fresh(Ret.callback_manager)
                /\ heap[Ret.callback_manager] = CallbackManager

\* a derived ServiceContext that took over the base's predictor and embedding
\* model under an explicit dispatcher different from the base's
C3_Witness ==
    /\ Returned /\ last.op = "from_service_context"
    /\ last.args.callback_manager # None
    /\ last.args.callback_manager # contexts[last.base].callback_manager
    /\ Ret.llm_predictor = contexts[last.base].llm_predictor
    /\ Ret.embed_model = contexts[last.base].embed_model

(* ---- C4 -------------------------------------------------------------- *)
\* C4: from_service_context with any non-None chunk_size_limit returns a
\* prompt helper and a node parser freshly built from the resolved predictor /
\* dispatcher and that limit, neither of them the base's.
C4_LimitRebuilds ==
    (Returned /\ last.op = "from_service_context"
        /\ last.args.chunk_size_limit # None)
    => /\ Fresh(Ret.prompt_helper)
       /\ heap[Ret.prompt_helper] =
            PromptHelper_from_llm_predictor(Ret.llm_predictor,
                                            last.args.chunk_size_limit)
       /\ Fresh(Ret.node_parser)
       /\ heap[Ret.node_parser] =
            SimpleNodeParser(last.args.chunk_size_limit, Ret.callback_manager)
       /\ Ret.prompt_helper # contexts[last.base].prompt_helper
       /\ Ret.node_parser # contexts[last.base].node_parser

(* ---- C5 -------------------------------------------------------------- *)
\* C5: with a global default G installed, from_defaults with no overrides
\* returns a ServiceContext equal to G in every field, chunk_size_limit
\* included.
C5_EqualsGlobal ==
    (Returned /\ last.op = "from_defaults" /\ last.global_before # None
        /\ last.args = NoArgs)
    => Ret = contexts[last.global_before]

(* ---- C6 -------------------------------------------------------------- *)
\* C6: from_defaults with no overrides consults only the value the most recent
\* set_global_service_context call passed: when that was None it builds fresh
\* default collaborators, none of them a collaborator of an earlier
\* ServiceContext (so of no previously installed global); otherwise its
\* collaborators are those of that ServiceContext.
C6_LastWriteWins ==
    (last.op = "from_defaults" /\ last.args = NoArgs)
    => /\ Returned
       /\ IF last.set_before = None
          THEN /\ \A r \in Fields(Ret) : Fresh(r)
               /\ \A i \in 1..Len(contexts) :
                    i # last.ret => Fields(contexts[i]) \cap Fields(Ret) = {}
               /\ heap[Ret.callback_manager] = CallbackManager
               /\ heap[Ret.llm_predictor] =
                    [LLMPredictor(None) EXCEPT !.callback_manager = Ret.callback_manager]
               /\ heap[Ret.embed_model] =
                    [OpenAIEmbedding EXCEPT !.callback_manager = Ret.callback_manager]
               /\ heap[Ret.prompt_helper] =
                    PromptHelper_from_llm_predictor(Ret.llm_predictor, None)
               /\ heap[Ret.node_parser] = SimpleNodeParser(None, Ret.callback_manager)
               /\ heap[Ret.llama_logger] = LlamaLogger
          ELSE \A f \in Collaborators : Ret[f] = contexts[last.set_before][f]

\* from_defaults() called after a global default was installed and then
\* cleared with None
C6_Witness ==
    /\ Returned /\ last.op = "from_defaults" /\ last.args = NoArgs
    /\ last.set_before = None
    /\ last.cleared_before # None

(* ---- C7 -------------------------------------------------------------- *)
\* C7: every ServiceContext the constructors returned has non-None predictor,
\* prompt helper, embedding model, node parser, logger and callback manager;
\* chunk_size_limit alone may be None, and it is None after from_defaults()
\* with no arguments and no global default.
C7_FieldsNonNull ==
    /\ \A i \in 1..Len(contexts) : \A f \in Collaborators :
            contexts[i][f] # None /\ contexts[i][f] \in 1..Len(heap)
    /\ (Returned /\ last.op = "from_defaults" /\ last.args = NoArgs
            /\ last.global_before = None)
       => Ret.chunk_size_limit = None

\* from_defaults() with no arguments and no global default has returned
C7_Witness ==
    /\ Returned /\ last.op = "from_defaults" /\ last.args = NoArgs
    /\ last.global_before = None
    /\ Ret.chunk_size_limit = None

(* ---- C8 -------------------------------------------------------------- *)
\* C8: after a successful from_defaults, every collaborator argument that was
\* specified is the corresponding field of the returned ServiceContext,
\* whatever the other arguments and whether or not a global default exists.
C8_ArgumentsUsed ==
    (Returned /\ last.op = "from_defaults")
    => \A f \in Collaborators : last.args[f] # None => Ret[f] = last.args[f]

(* ---- C9 -------------------------------------------------------------- *)
\* C9 (as stated): every ServiceContext constructed so far still has its
\* predictor's and its embedding model's callback_manager equal to its own
\* callback_manager field.
C9_AllContextsShared ==
    \A i \in 1..Len(contexts) :
        /\ heap[contexts[i].llm_predictor].callback_manager
             = contexts[i].callback_manager
        /\ heap[contexts[i].embed_model].callback_manager
             = contexts[i].callback_manager

\* the most recently constructed ServiceContext whose field f is the object r
LatestHolder(f, r) ==
    CHOOSE j \in 1..Len(contexts) :
        /\ contexts[j][f] = r
        /\ \A k \in 1..Len(contexts) : contexts[k][f] = r => k <= j

\* C9 (amended): for every ServiceContext constructed so far, the
\* callback_manager of its predictor (of its embedding model) is the
\* callback_manager field of the most recently constructed ServiceContext that
\* holds the same predictor (embedding model).
C9_LatestHolderWins ==
    \A i \in 1..Len(contexts) :
        /\ heap[contexts[i].llm_predictor].callback_manager
             = contexts[LatestHolder("llm_predictor", contexts[i].llm_predictor)].callback_manager
        /\ heap[contexts[i].embed_model].callback_manager
             = contexts[LatestHolder("embed_model", contexts[i].embed_model)].callback_manager

\* a base ServiceContext whose predictor now carries the dispatcher of a
\* ServiceContext derived from it later
C9_Witness ==
    \E i \in 1..Len(contexts) : \E j \in 1..Len(contexts) :
        /\ i < j
        /\ contexts[i].llm_predictor = contexts[j].llm_predictor
        /\ contexts[i].callback_manager # contexts[j].callback_manager
        /\ heap[contexts[i].llm_predictor].callback_manager
             = contexts[j].callback_manager

(* ---- C10 ------------------------------------------------------------- *)
\* C10: a constructor call that raises the conflicting-arguments error leaves
\* every object that existed before the call (the supplied predictor and
\* embedding model, those of the base), every ServiceContext and the global
\* default as they were.
C10_RaiseChangesNothing ==
    [][(calls' # calls /\ last'.raised)
        => /\ \A r \in 1..Len(heap) : heap'[r] = heap[r]
           /\ contexts' = contexts
           /\ global_service_context' = global_service_context]_vars

\* from_service_context has raised on a supplied predictor whose dispatcher
\* differs from the one the call resolved
C10_Witness ==
    /\ last.op = "from_service_context" /\ last.raised
    /\ last.args.llm_predictor # None
    /\ heap[last.args.llm_predictor].callback_manager
         # contexts[last.base].callback_manager

====
